---- MODULE Spec2Model ----
(***************************************************************************)
(* Model of src/src/app.ts: validation of JSON payloads against an Avro    *)
(* schema, either the hard-coded one (Validate) or one fetched from a      *)
(* schema registry by numeric id (ValidateWithRegistry).                   *)
(*                                                                         *)
(* A text (a JavaScript string that is handed to JSON.parse) is a sequence *)
(* of lexemes.  A lexeme is a record [k, w, n, s]:                         *)
(*   k = "p"  punctuation, w one of "{" "}" "[" "]" ":" ","                *)
(*   k = "s"  a string literal, s the text between its quotes              *)
(*   k = "n"  a number literal, n its value                                *)
(*   k = "w"  any other run of characters, w the characters                *)
(* A JavaScript value is a record [t, b, n, s, o, a]: t is its type tag,   *)
(* and b, n, s, o or a holds a boolean, a number, the characters of a      *)
(* string, the properties of an object or the elements of an array.        *)
(* The fields a lexeme or a value does not use hold a fixed filler.        *)
(***************************************************************************)
EXTENDS Integers, Sequences, FiniteSets

----------------------------------------------------------------------------
(* Lexemes and texts *)

P(x) == [k |-> "p", w |-> x, n |-> 0, s |-> <<>>]
S(x) == [k |-> "s", w |-> "", n |-> 0, s |-> x]
N(x) == [k |-> "n", w |-> "", n |-> x, s |-> <<>>]
W(x) == [k |-> "w", w |-> x, n |-> 0, s |-> <<>>]

\* the characters x as the content of a string
Chars(x) == <<W(x)>>

\* the string literal "x"
Lit(x) == S(Chars(x))

----------------------------------------------------------------------------
(* JavaScript values *)

Value(t, b, n, s, o, a) == [t |-> t, b |-> b, n |-> n, s |-> s, o |-> o, a |-> a]
Undefined == Value("undefined", FALSE, 0, <<>>, <<>>, <<>>)
Null == Value("null", FALSE, 0, <<>>, <<>>, <<>>)
StringV(x) == Value("string", FALSE, 0, x, <<>>, <<>>)
NumberV(x) == Value("number", FALSE, x, <<>>, <<>>, <<>>)
BooleanV(x) == Value("boolean", x, 0, <<>>, <<>>, <<>>)
ObjectV(x) == Value("object", FALSE, 0, <<>>, x, <<>>)
ArrayV(x) == Value("array", FALSE, 0, <<>>, <<>>, x)

\* obj.key : undefined for a missing property and for a non-object
Get(obj, key) ==
    IF obj.t = "object" /\ key \in DOMAIN obj.o
    THEN obj.o[key]
    ELSE Undefined

\* String(x): the coercion JSON.parse applies to a non-string argument
String(x) ==
    CASE x.t = "string" -> x.s
      [] x.t = "number" -> <<N(x.n)>>
      [] x.t = "boolean" -> <<W(IF x.b THEN "true" ELSE "false")>>
      [] x.t = "null" -> <<W("null")>>
      [] x.t = "undefined" -> <<W("undefined")>>
      [] x.t = "array" -> <<W("array elements")>>
      [] OTHER -> <<P("["), W("object Object"), P("]")>>

----------------------------------------------------------------------------
(* Completions: a normal return (of a value, or of an avsc type), or a     *)
(* throw / a rejected promise                                              *)

NoError == [name |-> "", message |-> <<>>]
NoType == [kind |-> "", fields |-> <<>>]
Return(x) == [threw |-> FALSE, value |-> x, type |-> NoType, error |-> NoError]
ReturnType(ty) ==
    [threw |-> FALSE, value |-> Undefined, type |-> ty, error |-> NoError]
Throw(n, m) == [threw |-> TRUE, value |-> Undefined, type |-> NoType,
                error |-> [name |-> n, message |-> m]]

\* the message of the SyntaxError raised by JSON.parse
JSONErrorMessage == <<W("Unexpected token")>>

----------------------------------------------------------------------------
(* JSON.parse *)

IsP(tok, x) == tok.k = "p" /\ tok.w = x
Fail == [ok |-> FALSE, val |-> Undefined, rest |-> <<>>]
Ok(x, r) == [ok |-> TRUE, val |-> x, rest |-> r]
Put(f, key, x) == [y \in DOMAIN f \cup {key} |-> IF y = key THEN x ELSE f[y]]

RECURSIVE ParseValue(_), ParseMembers(_, _), ParseElements(_, _)

\* one JSON value at the head of toks
ParseValue(toks) ==
    IF toks = <<>> THEN Fail
    ELSE LET h == Head(toks)
             r == Tail(toks)
         IN CASE h.k = "s" -> Ok(StringV(h.s), r)
              [] h.k = "n" -> Ok(NumberV(h.n), r)
              [] h.k = "w" ->
                    CASE h.w = "true" -> Ok(BooleanV(TRUE), r)
                      [] h.w = "false" -> Ok(BooleanV(FALSE), r)
                      [] h.w = "null" -> Ok(Null, r)
                      [] OTHER -> Fail
              [] IsP(h, "{") ->
                    IF r # <<>> /\ IsP(Head(r), "}")
                    THEN Ok(ObjectV(<<>>), Tail(r))
                    ELSE ParseMembers(r, <<>>)
              [] IsP(h, "[") ->
                    IF r # <<>> /\ IsP(Head(r), "]")
                    THEN Ok(ArrayV(<<>>), Tail(r))
                    ELSE ParseElements(r, <<>>)
              [] OTHER -> Fail

\* key : value (, key : value)* }   with the members read so far in acc
ParseMembers(toks, acc) ==
    IF Len(toks) < 2 \/ toks[1].k # "s" \/ ~IsP(toks[2], ":") THEN Fail
    ELSE LET m == ParseValue(SubSeq(toks, 3, Len(toks)))
         IN IF ~m.ok \/ m.rest = <<>> THEN Fail
            ELSE LET acc2 == Put(acc, toks[1].s, m.val)
                     sep == Head(m.rest)
                 IN CASE IsP(sep, "}") -> Ok(ObjectV(acc2), Tail(m.rest))
                      [] IsP(sep, ",") -> ParseMembers(Tail(m.rest), acc2)
                      [] OTHER -> Fail

\* value (, value)* ]   with the elements read so far in acc
ParseElements(toks, acc) ==
    LET m == ParseValue(toks)
    IN IF ~m.ok \/ m.rest = <<>> THEN Fail
       ELSE LET acc2 == Append(acc, m.val)
                sep == Head(m.rest)
            IN CASE IsP(sep, "]") -> Ok(ArrayV(acc2), Tail(m.rest))
                 [] IsP(sep, ",") -> ParseElements(Tail(m.rest), acc2)
                 [] OTHER -> Fail

\* JSON.parse(x): the value of the whole text, or a SyntaxError
JSONparse(x) ==
    LET m == ParseValue(String(x))
    IN IF m.ok /\ m.rest = <<>> THEN Return(m.val)
       ELSE Throw("SyntaxError", JSONErrorMessage)

----------------------------------------------------------------------------
(* avsc: avro.Type.forSchema and Type.isValid, for primitive types and     *)
(* records (union, array, map, enum and named-reference schemas are not    *)
(* among the schemas this model feeds it, and are refused).                *)
(* A type is [kind, fields]; fields is a sequence of [name, type].         *)

Primitives ==
    {"null", "boolean", "int", "long", "float", "double", "bytes", "string"}

\* x is a string of plain characters
IsPlain(x) == x.t = "string" /\ Len(x.s) = 1 /\ x.s[1].k = "w"
IsChars(x, w) == IsPlain(x) /\ x.s[1].w = w
IsPrimitiveName(x) == IsPlain(x) /\ x.s[1].w \in Primitives

PrimitiveType(x) == [kind |-> x.s[1].w, fields |-> <<>>]
UnknownType == Throw("Error", Chars("unknown type"))

RECURSIVE forSchema(_), forFields(_, _)

forSchema(schema) ==
    CASE IsPrimitiveName(schema) -> ReturnType(PrimitiveType(schema))
      [] schema.t = "object" ->
            LET ty == Get(schema, Chars("type"))
                fs == Get(schema, Chars("fields"))
            IN CASE IsPrimitiveName(ty) -> ReturnType(PrimitiveType(ty))
                 [] IsChars(ty, "record") ->
                       IF fs.t = "array"
                       THEN forFields(fs.a, <<>>)
                       ELSE Throw("Error", Chars("non-array record fields"))
                 [] OTHER -> UnknownType
      [] OTHER -> UnknownType

\* the fields of a record schema, left to right, with those built so far in acc
forFields(fs, acc) ==
    IF fs = <<>> THEN ReturnType([kind |-> "record", fields |-> acc])
    ELSE LET f == Head(fs)
             nm == Get(f, Chars("name"))
             ft == forSchema(Get(f, Chars("type")))
         IN IF nm.t # "string"
            THEN Throw("Error", Chars("invalid field name"))
            ELSE IF ft.threw THEN ft
            ELSE forFields(Tail(fs), Append(acc, [name |-> nm.s, type |-> ft.type]))

RECURSIVE isValidStrict(_, _)

\* variant: isValid with noUndeclaredFields set
isValidStrict(type, val) ==
    CASE type.kind = "string" -> val.t = "string"
      [] type.kind \in {"int", "long", "float", "double"} -> val.t = "number"
      [] type.kind = "boolean" -> val.t = "boolean"
      [] type.kind = "null" -> val.t = "null"
      [] type.kind = "record" ->
            /\ val.t \in {"object", "array"}
            /\ \A n \in 1..Len(type.fields) :
                  isValidStrict(type.fields[n].type,
                                Get(val, type.fields[n].name))
            /\ val.t = "object" =>
                  \A key \in DOMAIN val.o :
                     \E n \in 1..Len(type.fields) : type.fields[n].name = key
      [] OTHER -> FALSE

RECURSIVE isValid(_, _)

\* type.isValid(val) with no options: undeclared fields of a record are ignored
isValid(type, val) ==
    CASE type.kind = "string" -> val.t = "string"
      [] type.kind \in {"int", "long", "float", "double"} -> val.t = "number"
      [] type.kind = "boolean" -> val.t = "boolean"
      [] type.kind = "null" -> val.t = "null"
      [] type.kind = "record" ->
            /\ val.t \in {"object", "array"}
            /\ \A n \in 1..Len(type.fields) :
                  isValid(type.fields[n].type, Get(val, type.fields[n].name))
      [] OTHER -> FALSE

----------------------------------------------------------------------------
(* app.ts *)

SCHEMA_ID == 2

RECURSIVE MakeObject(_)
\* an object literal, from its <<key, value>> pairs
MakeObject(pairs) ==
    IF pairs = <<>> THEN <<>>
    ELSE Put(MakeObject(SubSeq(pairs, 1, Len(pairs) - 1)),
             Chars(pairs[Len(pairs)][1]), pairs[Len(pairs)][2])

Field(n, ty) ==
    ObjectV(MakeObject(<< <<"name", StringV(Chars(n))>>,
                          <<"type", StringV(Chars(ty))>> >>))

defaultSchemaDef ==
    ObjectV(MakeObject(<<
        <<"type", StringV(Chars("record"))>>,
        <<"name", StringV(Chars("HelloWorldMessage"))>>,
        <<"fields", ArrayV(<<Field("message", "string"),
                             Field("sender", "string")>>)>> >>))

defaultSchema == forSchema(defaultSchemaDef).type

\* `Error! status: ${response.status}`
StatusMessage(status) == <<W("Error!"), W("status:"), N(status)>>

\* response.ok
ResponseOk(status) == status >= 200 /\ status <= 299

\* the try block of getSchema, given how the fetch was answered
getSchemaTry(answer) ==
    CASE answer.kind = "reject" -> Throw("TypeError", Chars("fetch failed"))
      [] answer.kind = "rejectOther" -> Throw("", Chars("not an Error"))
      [] ~ResponseOk(answer.status) ->
            Throw("Error", StatusMessage(answer.status))
      [] OTHER ->
            LET result == JSONparse(StringV(answer.body))
            IN IF result.threw THEN result
               ELSE IF result.value.t = "null"
               THEN Throw("TypeError", Chars("Cannot read properties of null"))
               ELSE Return(Get(result.value, Chars("schema")))

\* getSchema: the try block, and the catch that turns an error into a string
getSchema(answer) ==
    LET body == getSchemaTry(answer)
    IN IF ~body.threw THEN body
       ELSE IF body.error.name # ""
       THEN Return(StringV(body.error.message))
       ELSE Return(StringV(Chars("An unexpected error occurred")))

\* variant: a payload that does not parse is reported as a mismatch
ValidateSwallow(input) ==
    LET obj == JSONparse(StringV(input))
    IN IF obj.threw THEN Return(BooleanV(FALSE))
       ELSE Return(BooleanV(isValid(defaultSchema, obj.value)))

\* Validate(input)
Validate(input) ==
    LET obj == JSONparse(StringV(input))
    IN IF obj.threw THEN obj
       ELSE Return(BooleanV(isValid(defaultSchema, obj.value)))

\* variant: whatever goes wrong is reported as a mismatch
WithSchemaSwallow(input, schemaString) ==
    LET parsed == JSONparse(schemaString)
        remoteSchema == forSchema(parsed.value)
        obj == JSONparse(StringV(input))
    IN IF parsed.threw \/ remoteSchema.threw \/ obj.threw
       THEN Return(BooleanV(FALSE))
       ELSE Return(BooleanV(isValid(remoteSchema.type, obj.value)))

\* ValidateWithRegistry from the point where getSchema has returned
\* schemaString
WithSchema(input, schemaString) ==
    LET parsed == JSONparse(schemaString)
    IN IF parsed.threw THEN parsed
       ELSE LET remoteSchema == forSchema(parsed.value)
            IN IF remoteSchema.threw THEN remoteSchema
               ELSE LET obj == JSONparse(StringV(input))
                    IN IF obj.threw THEN obj
                       ELSE Return(BooleanV(isValid(remoteSchema.type,
                                                    obj.value)))

----------------------------------------------------------------------------
(* Inputs: payload texts, and what the registry can answer *)

Member(key, val) == <<Lit(key), P(":"), val>>

\* JSON.stringify({ message: 'be home early!', sender: 'momma' })
validString ==
    <<P("{")>> \o Member("message", Lit("be home early!")) \o <<P(",")>>
        \o Member("sender", Lit("momma")) \o <<P("}")>>

\* JSON.stringify({ message: 'no beer today!', from: 'momma' })
invalidString ==
    <<P("{")>> \o Member("message", Lit("no beer today!")) \o <<P(",")>>
        \o Member("from", Lit("momma")) \o <<P("}")>>

\* both declared fields, and an undeclared one
extraString ==
    <<P("{")>> \o Member("message", Lit("be home early!")) \o <<P(",")>>
        \o Member("sender", Lit("momma")) \o <<P(",")>>
        \o Member("from", Lit("momma")) \o <<P("}")>>

\* a declared field that is not a string
wrongTypeString ==
    <<P("{")>> \o Member("message", N(5)) \o <<P(",")>>
        \o Member("sender", Lit("momma")) \o <<P("}")>>

\* JSON that is no object
nullString == <<W("null")>>

\* a text cut off in the middle: not JSON
brokenString == <<P("{")>> \o Member("message", Lit("be home early!"))

Payloads ==
    {validString, invalidString, extraString, wrongTypeString, nullString,
     brokenString}

RemotePayloads == {validString, invalidString, brokenString}

Ids == {1, SCHEMA_ID}

FieldText(n, ty) ==
    <<P("{")>> \o Member("name", Lit(n)) \o <<P(",")>>
        \o Member("type", Lit(ty)) \o <<P("}")>>

\* the schema the registry holds under an id: the HelloWorldMessage record
\* under SCHEMA_ID, the primitive type "string" under the other id
RegistrySchema(i) ==
    IF i = SCHEMA_ID
    THEN <<P("{")>> \o Member("type", Lit("record")) \o <<P(",")>>
            \o Member("name", Lit("HelloWorldMessage")) \o <<P(",")>>
            \o <<Lit("fields"), P(":"), P("[")>>
            \o FieldText("message", "string") \o <<P(",")>>
            \o FieldText("sender", "string") \o <<P("]"), P("}")>>
    ELSE <<Lit("string")>>

\* a schema text that is JSON and that avsc refuses
BadSchema == <<P("{")>> \o Member("type", Lit("bogus")) \o <<P("}")>>

Response(status, body) == [kind |-> "response", status |-> status, body |-> body]
Rejected(kind) == [kind |-> kind, status |-> 0, body |-> <<>>]

\* { "schema": "<text>" }
SchemaBody(text) == <<P("{"), Lit("schema"), P(":"), S(text), P("}")>>

\* the 2xx answer carrying the schema stored under id i
GoodAnswer(i) == Response(200, SchemaBody(RegistrySchema(i)))

\* answers that are no usable schema
HttpErrors == {Response(500, <<W("Internal Server Error")>>)}
FetchFailures ==
    HttpErrors \cup
    {Rejected("reject"), Rejected("rejectOther"),
     Response(200, <<W("<html>")>>),
     Response(200, <<P("{"), P("}")>>)}
Uncompilable == {Response(200, SchemaBody(BadSchema))}

\* every way the registry (or the network) can answer a GET for id i
Answers(i) == {GoodAnswer(i)} \cup FetchFailures \cup Uncompilable

----------------------------------------------------------------------------
(* The calls a client makes.  Each call takes the next free slot.          *)
(* Validate runs to completion when called.  ValidateWithRegistry issues   *)
(* its GET when called and is suspended until the fetch is settled; it     *)
(* shares no state with any other call.                                    *)

MaxCalls == 2
Calls == 1..MaxCalls

VARIABLES
    pc,            \* per call: "idle", "fetch" (awaiting the registry), "done"
    fn,            \* per call: "Validate" or "ValidateWithRegistry"
    input,         \* per call: the payload text
    schemaId,      \* per call: the schema id (0 for Validate)
    prior,         \* per call: the calls for the same schema id that were
                   \*   done when it was made
    sent,          \* per call: the GET requests it issued
    answer,        \* per call: how its fetch was settled
    schemaString,  \* per call: what getSchema returned
    result,        \* per call: its completion
    requests       \* per schema id: the GET requests the registry received

vars == <<pc, fn, input, schemaId, prior, sent, answer, schemaString, result,
          requests>>

NoAnswer == Rejected("none")

Init ==
    /\ pc = [c \in Calls |-> "idle"]
    /\ fn = [c \in Calls |-> ""]
    /\ input = [c \in Calls |-> <<>>]
    /\ schemaId = [c \in Calls |-> 0]
    /\ prior = [c \in Calls |-> {}]
    /\ sent = [c \in Calls |-> 0]
    /\ answer = [c \in Calls |-> NoAnswer]
    /\ schemaString = [c \in Calls |-> Return(Undefined)]
    /\ result = [c \in Calls |-> Return(Undefined)]
    /\ requests = [i \in Ids |-> 0]

NextFree(c) == pc[c] = "idle" /\ \A d \in Calls : d < c => pc[d] # "idle"
DoneFor(i) == {d \in Calls : pc[d] = "done" /\ schemaId[d] = i}

\* variant: the GET is skipped once some call for the id has completed
IssueGetCached(reqs, i) ==
    IF DoneFor(i) # {} THEN reqs ELSE [reqs EXCEPT ![i] = @ + 1]

\* variant: the GET is skipped while another call for the id awaits its fetch
IssueGetSingleFlight(reqs, i) ==
    IF \E d \in Calls : pc[d] = "fetch" /\ schemaId[d] = i
    THEN reqs ELSE [reqs EXCEPT ![i] = @ + 1]

\* variant: the GET is skipped once a fetch for the id has failed
IssueGetUnlessFailed(reqs, i) ==
    IF \E d \in DoneFor(i) : answer[d] \in FetchFailures
    THEN reqs ELSE [reqs EXCEPT ![i] = @ + 1]

\* fetch(`${SCHEMA_REGISTRY_URL}/${id}`): one GET for id reaches the registry
IssueGet(reqs, i) == [reqs EXCEPT ![i] = @ + 1]

\* variant: the calls are resumed one at a time, in the order they were made
AwaitingFetchInTurn(c) ==
    pc[c] = "fetch" /\ \A d \in Calls : d < c => pc[d] # "fetch"

\* call c is suspended at its own `await fetch(...)`, and at nothing else
AwaitingFetch(c) == pc[c] = "fetch"

\* a client calls Validate(p)
CallValidate(c, p) ==
    /\ NextFree(c)
    /\ pc' = [pc EXCEPT ![c] = "done"]
    /\ fn' = [fn EXCEPT ![c] = "Validate"]
    /\ input' = [input EXCEPT ![c] = p]
    /\ result' = [result EXCEPT ![c] = Validate(p)]
    /\ UNCHANGED <<schemaId, prior, sent, answer, schemaString, requests>>

\* a client calls ValidateWithRegistry(p, i): it runs up to the await of fetch
CallValidateWithRegistry(c, p, i) ==
    /\ NextFree(c)
    /\ pc' = [pc EXCEPT ![c] = "fetch"]
    /\ fn' = [fn EXCEPT ![c] = "ValidateWithRegistry"]
    /\ input' = [input EXCEPT ![c] = p]
    /\ schemaId' = [schemaId EXCEPT ![c] = i]
    /\ prior' = [prior EXCEPT ![c] = DoneFor(i)]
    /\ requests' = IssueGet(requests, i)
    /\ sent' = [sent EXCEPT ![c] = requests'[i] - requests[i]]
    /\ UNCHANGED <<answer, schemaString, result>>

\* the fetch of call c is settled with answer a: getSchema returns and
\* ValidateWithRegistry runs to its end
ResumeValidateWithRegistry(c, a) ==
    /\ AwaitingFetch(c)
    /\ pc' = [pc EXCEPT ![c] = "done"]
    /\ answer' = [answer EXCEPT ![c] = a]
    /\ LET returned == getSchema(a)
       IN /\ schemaString' = [schemaString EXCEPT ![c] = returned]
          /\ result' = [result EXCEPT ![c] = WithSchema(input[c], returned.value)]
    /\ UNCHANGED <<fn, input, schemaId, prior, sent, requests>>

Next ==
    \E c \in Calls :
        \/ \E p \in Payloads : CallValidate(c, p)
        \/ \E p \in RemotePayloads, i \in Ids : CallValidateWithRegistry(c, p, i)
        \/ \E a \in Answers(schemaId[c]) : ResumeValidateWithRegistry(c, a)

Spec == Init /\ [][Next]_vars

----------------------------------------------------------------------------
(* Properties *)

Remote == {c \in Calls : fn[c] = "ValidateWithRegistry"}
Local == {c \in Calls : fn[c] = "Validate"}
RemoteDone == {c \in Remote : pc[c] = "done"}
RemoteFor(i) == {c \in Remote : schemaId[c] = i}

IsBoolean(o) == ~o.threw /\ o.value.t = "boolean"
IsTrue(o) == IsBoolean(o) /\ o.value.b
IsFalse(o) == IsBoolean(o) /\ ~o.value.b

\* the payloads that are JSON texts
JSONPayloads ==
    {validString, invalidString, extraString, wrongTypeString, nullString}

\* the registry counted, for every id, one GET per ValidateWithRegistry call
OneGetPerCall == \A i \in Ids : requests[i] = Cardinality(RemoteFor(i))

\* C1 as stated: of two successive calls with the same payload and id, the
\* first of which returned a boolean, the second issues no request to the
\* registry and returns the same boolean.
C1_CacheHit ==
    \A c \in Remote : \A d \in prior[c] :
        (input[d] = input[c] /\ IsBoolean(result[d])) =>
            /\ sent[c] = 0
            /\ pc[c] = "done" => result[c] = result[d]

\* C1 amended: of two successive calls with the same payload and id, the
\* first of which returned a boolean, the second issues exactly one request
\* to the registry, and returns the same boolean whenever its fetch is
\* answered as the first one's was.
C1_Refetch ==
    \A c \in Remote : \A d \in prior[c] :
        (input[d] = input[c] /\ IsBoolean(result[d])) =>
            /\ sent[c] = 1
            /\ requests[schemaId[c]] >= 2
            /\ (pc[c] = "done" /\ answer[c] = answer[d]) => result[c] = result[d]

C1_Witness ==
    \E c \in RemoteDone : \E d \in prior[c] :
        /\ input[d] = input[c]
        /\ IsTrue(result[d]) /\ IsTrue(result[c])
        /\ sent[c] = 1

\* the calls for id i were all made before any of them completed
Concurrent(i) == \A c \in RemoteFor(i) : prior[c] = {}

\* C2 as stated: concurrent calls for one id that was not fetched before
\* cause exactly one registry fetch, and all of them see the same outcome
\* of it.
C2_SingleFlight ==
    \A i \in Ids :
        (Concurrent(i) /\ RemoteFor(i) # {}) =>
            /\ requests[i] = 1
            /\ \A c, d \in RemoteFor(i) \cap RemoteDone :
                  schemaString[c] = schemaString[d]

\* C2 amended: N concurrent calls for one id that was not fetched before
\* cause exactly N registry fetches, one per call, and each call sees the
\* outcome of its own fetch: calls see the same outcome when their fetches
\* are answered alike.
C2_FetchPerCall ==
    \A i \in Ids :
        Concurrent(i) =>
            /\ requests[i] = Cardinality(RemoteFor(i))
            /\ \A c \in RemoteFor(i) : sent[c] = 1
            /\ \A c, d \in RemoteFor(i) \cap RemoteDone :
                  answer[c] = answer[d] => schemaString[c] = schemaString[d]

C2_Witness ==
    \E c, d \in RemoteDone :
        /\ c # d /\ schemaId[c] = schemaId[d]
        /\ prior[c] = {} /\ prior[d] = {}
        /\ requests[schemaId[c]] = 2
        /\ IsBoolean(result[c]) /\ result[d].threw

\* C3: after a call for id X failed because its fetch failed, a later call
\* for X issues a fetch of its own, and when that fetch is answered 2xx with
\* the schema and the payload is JSON it returns a boolean.
C3_FailureNotKept ==
    \A c \in Remote : \A d \in prior[c] :
        (answer[d] \in FetchFailures /\ result[d].threw) =>
            /\ sent[c] = 1
            /\ (/\ pc[c] = "done"
                /\ answer[c] = GoodAnswer(schemaId[c])
                /\ input[c] \in JSONPayloads) => IsBoolean(result[c])

C3_Witness ==
    \E c \in RemoteDone : \E d \in prior[c] :
        /\ answer[d] \in HttpErrors /\ result[d].threw
        /\ answer[c] = GoodAnswer(schemaId[c])
        /\ IsTrue(result[c])

\* C4 as stated: when the registry answers with a non-2xx status c, the call
\* fails with the error that carries c (the Error getSchema raises for that
\* status), which no other kind of failure produces.
C4_HttpStatusError ==
    \A c \in RemoteDone :
        answer[c] \in HttpErrors =>
            /\ result[c].threw
            /\ result[c].error.name = "Error"
            /\ result[c].error.message = StatusMessage(answer[c].status)

\* C5: a call whose schema could not be fetched or compiled ends with an
\* error, never with true or false; a boolean result means the fetch was
\* answered 2xx with the schema and the payload is JSON.
C5_NoErrorAsBoolean ==
    \A c \in RemoteDone :
        /\ answer[c] \in FetchFailures \cup Uncompilable => result[c].threw
        /\ IsBoolean(result[c]) =>
              /\ answer[c] = GoodAnswer(schemaId[c])
              /\ input[c] \in JSONPayloads

C5_Witness ==
    /\ \E c \in RemoteDone : answer[c] \in HttpErrors /\ result[c].threw
    /\ \E c \in RemoteDone : answer[c] \in Uncompilable /\ result[c].threw

\* C6: Validate issues no request to the registry, whatever calls came
\* before; on a payload that is not JSON it fails with a SyntaxError, and on
\* every JSON payload it returns a boolean.
C6_ValidateLocal ==
    /\ OneGetPerCall
    /\ \A c \in Local :
          /\ pc[c] = "done" /\ sent[c] = 0
          /\ input[c] \in JSONPayloads => IsBoolean(result[c])
          /\ input[c] \notin JSONPayloads =>
                result[c].threw /\ result[c].error.name = "SyntaxError"

C6_Witness ==
    \E c \in Local, e \in Remote :
        /\ e < c
        /\ input[c] = brokenString /\ result[c].threw
        /\ requests[schemaId[e]] = 1

\* the decoded payload p has the string fields message and sender
HasDeclaredFields(p) ==
    /\ p.t = "object"
    /\ Get(p, Chars("message")).t = "string"
    /\ Get(p, Chars("sender")).t = "string"

\* the decoded payload p has no field but message and sender
HasNoOtherField(p) ==
    p.t = "object" => DOMAIN p.o \subseteq {Chars("message"), Chars("sender")}

\* C7 as stated: Validate returns true exactly when the decoded payload is
\* an object with string fields message and sender and no other field.
C7_StrictMatch ==
    \A c \in Local :
        input[c] \in JSONPayloads =>
            LET p == JSONparse(StringV(input[c])).value
            IN IsTrue(result[c]) <=> (HasDeclaredFields(p) /\ HasNoOtherField(p))

\* C7 amended: Validate returns true exactly when the decoded payload is an
\* object with string fields message and sender, whatever other fields it
\* has; it returns false for a missing or non-string declared field.
C7_DeclaredFieldsMatch ==
    \A c \in Local :
        input[c] \in JSONPayloads =>
            LET p == JSONparse(StringV(input[c])).value
            IN /\ IsBoolean(result[c])
               /\ IsTrue(result[c]) <=> HasDeclaredFields(p)

C7_Witness ==
    \E c, d \in Local :
        /\ input[c] = extraString /\ IsTrue(result[c])
        /\ input[d] \in {invalidString, wrongTypeString} /\ IsFalse(result[d])

\* C8: calls for distinct ids each issue a fetch of their own; a call whose
\* fetch is outstanding can be resumed as soon as it is answered, whatever
\* the state of the other calls; and its result is decided by its payload
\* and the answer to its own fetch.
C8_Independence ==
    /\ \A c \in Remote : sent[c] = 1
    /\ \A c \in Calls : pc[c] = "fetch" => AwaitingFetch(c)
    /\ \A c, d \in RemoteDone :
          (input[c] = input[d] /\ answer[c] = answer[d]) => result[c] = result[d]

C8_Witness ==
    \E c \in RemoteDone, d \in Remote :
        /\ d < c /\ schemaId[c] # schemaId[d]
        /\ pc[d] = "fetch"
        /\ IsBoolean(result[c])
        /\ requests[schemaId[c]] = 1 /\ requests[schemaId[d]] = 1

\* the request of a call failed: no response, a non-2xx status, or a body
\* that is not JSON
RequestFailed(a) ==
    \/ a.kind # "response"
    \/ ~ResponseOk(a.status)
    \/ JSONparse(StringV(a.body)).threw

\* C9 as stated: getSchema resolves with the schema string when the request
\* succeeded and rejects with an error when it failed.
C9_RejectsOnFailure ==
    \A c \in RemoteDone :
        IF RequestFailed(answer[c])
        THEN schemaString[c].threw
        ELSE ~schemaString[c].threw

\* C10: every ValidateWithRegistry call issues exactly one GET for its id,
\* whatever calls for that id came before and however they ended, and no
\* GET is issued otherwise.
C10_AlwaysCallsRegistry ==
    /\ OneGetPerCall
    /\ \A c \in Calls : sent[c] = (IF c \in Remote THEN 1 ELSE 0)

C10_Witness ==
    \E c \in Remote :
        /\ \E d \in prior[c] : result[d].threw
        /\ sent[c] = 1
        /\ requests[schemaId[c]] = 2
====
